---- MODULE Spec2Model ----
(***************************************************************************)
(* The linguistics engine of src/shared/linguistics.ts: the static         *)
(* dictionary compiled to word-boundary regular expressions by the         *)
(* constructor, the dynamic term store (a Map keyed by lowercased term),   *)
(* translate, which tests every compiled pattern against the input, and    *)
(* getRandomTerm, which picks an entry of the static dictionary.           *)
(*                                                                         *)
(* Strings the engine inspects character by character (terms, inputs,      *)
(* categories, regex sources) are sequences of one-character strings;      *)
(* meanings are opaque and stay TLA+ strings.  Positions inside a string   *)
(* are JavaScript's 0-based indices; input[i + 1] is the character at      *)
(* index i.                                                                *)
(***************************************************************************)
EXTENDS Integers, Sequences, FiniteSets, TLC

VARIABLES
    patterns,         \* this.patterns: the static CompiledPattern list
    dynamicPatterns,  \* this.dynamicPatterns: the Map's entries, in insertion order
    result,           \* the value the last call returned (NoResult for void)
    tested,           \* how many regex.test calls the last call made
    call,             \* the last call and its arguments
    registered,       \* history: the arguments of every addDynamicTerm so far, in order
    table,            \* the rows of the dynamic_slang table
    tasks,            \* the calls of the slang discovery service that are under way
    started           \* how many calls of the slang discovery service have begun

vars == <<patterns, dynamicPatterns, result, tested, call, registered,
          table, tasks, started>>

(***************************************************************************)
(* Characters.                                                             *)
(***************************************************************************)
LowerLetters ==
    <<"a","b","c","d","e","f","g","h","i","j","k","l","m",
      "n","o","p","q","r","s","t","u","v","w","x","y","z">>

UpperLetters ==
    <<"A","B","C","D","E","F","G","H","I","J","K","L","M",
      "N","O","P","Q","R","S","T","U","V","W","X","Y","Z">>

Digits == {"0","1","2","3","4","5","6","7","8","9"}

Range(s) == {s[i] : i \in DOMAIN s}

\* The characters \w stands for; \b is defined from them.
WordChars == Range(LowerLetters) \cup Range(UpperLetters) \cup Digits \cup {"_"}

IsWordChar(c) == c \in WordChars

\* The lower-case form of each upper-case letter and the reverse.
LowerOf == [c \in Range(UpperLetters) |->
               LowerLetters[CHOOSE i \in DOMAIN UpperLetters : UpperLetters[i] = c]]

UpperOf == [c \in Range(LowerLetters) |->
               UpperLetters[CHOOSE i \in DOMAIN LowerLetters : LowerLetters[i] = c]]

\* String.prototype.toLowerCase, one character.
LowerChar(c) == IF c \in DOMAIN LowerOf THEN LowerOf[c] ELSE c

\* String.prototype.toLowerCase.
toLowerCase(s) == [i \in DOMAIN s |-> LowerChar(s[i])]

\* The regex engine's Canonicalize under the i flag: characters compare by
\* their upper-case form.
Canonicalize(c) == IF c \in DOMAIN UpperOf THEN UpperOf[c] ELSE c

(***************************************************************************)
(* Regular expressions: escaping, compilation, test().                     *)
(***************************************************************************)
\* The character class of the escaping replace: [.*+?^${}()|[\]\\]
EscapedClass == {".","*","+","?","^","$","{","}","(",")","|","[","]","\\"}

RECURSIVE EscapeFrom(_, _)
EscapeFrom(s, i) ==
    IF i > Len(s) THEN <<>>
    ELSE (IF s[i] \in EscapedClass THEN <<"\\", s[i]>> ELSE <<s[i]>>)
         \o EscapeFrom(s, i + 1)

\* No escaping: the term goes into the pattern source as it is.
EscapeRegExpNone(s) == s

\* slang.replace(/[.*+?^${}()|[\]\\]/g, '\\$&')
EscapeRegExp(s) == EscapeFrom(s, 1)

\* The template `\\b${escaped}\\b`.
PatternSource(escaped) == <<"\\", "b">> \o escaped \o <<"\\", "b">>

\* The atoms of a pattern source: \b is the word-boundary assertion, a
\* backslash before any other character makes it a literal, an unescaped
\* dot matches any character, every other character is a literal.  (The
\* quantifier and group syntax never reaches the parser: the escaping above
\* turns each of those characters into a literal.)
RECURSIVE AtomsFrom(_, _)
AtomsFrom(src, i) ==
    IF i > Len(src) THEN <<>>
    ELSE IF src[i] = "\\" /\ i < Len(src)
         THEN (IF src[i + 1] = "b"
               THEN <<[kind |-> "boundary", char |-> ""]>>
               ELSE <<[kind |-> "char", char |-> src[i + 1]]>>)
              \o AtomsFrom(src, i + 2)
         ELSE (IF src[i] = "."
               THEN <<[kind |-> "any", char |-> ""]>>
               ELSE <<[kind |-> "char", char |-> src[i]]>>)
              \o AtomsFrom(src, i + 1)

Atoms(src) == AtomsFrom(src, 1)

\* new RegExp(source, 'gi'): a fresh object, compiled once from its source,
\* whose scan position is 0.
NewRegExp(source) == [source |-> source, atoms |-> Atoms(source), lastIndex |-> 0]

\* \b at index pos: exactly one of the characters before and after the
\* position is a word character (the string's ends count as non-word).
AtWordBoundary(input, pos) ==
    LET before == pos > 0 /\ IsWordChar(input[pos])
        after  == pos < Len(input) /\ IsWordChar(input[pos + 1])
    IN  before # after

\* The index after a match of atoms k.. that starts at index pos, or -1.
RECURSIVE MatchFrom(_, _, _, _)
MatchFrom(atoms, k, input, pos) ==
    IF k > Len(atoms) THEN pos
    ELSE IF atoms[k].kind = "boundary"
         THEN IF AtWordBoundary(input, pos)
              THEN MatchFrom(atoms, k + 1, input, pos) ELSE -1
         ELSE IF pos >= Len(input) THEN -1
         ELSE IF atoms[k].kind = "any"
                 \/ Canonicalize(input[pos + 1]) = Canonicalize(atoms[k].char)
              THEN MatchFrom(atoms, k + 1, input, pos + 1) ELSE -1

\* The first index >= from at which the atoms match, as <<start, end>>, or
\* <<-1, -1>>.
RECURSIVE SearchFrom(_, _, _)
SearchFrom(atoms, input, from) ==
    IF from > Len(input) THEN <<-1, -1>>
    ELSE LET e == MatchFrom(atoms, 1, input, from)
         IN  IF e >= 0 THEN <<from, e>> ELSE SearchFrom(atoms, input, from + 1)

\* RegExp.prototype.test on a global regex: the search starts at lastIndex;
\* a match leaves lastIndex at its end, a failure resets lastIndex to 0.
RegExpTest(regex, input) ==
    LET m == SearchFrom(regex.atoms, input, regex.lastIndex)
    IN  IF m[1] >= 0
        THEN [matched |-> TRUE,  regex |-> [regex EXCEPT !.lastIndex = m[2]]]
        ELSE [matched |-> FALSE, regex |-> [regex EXCEPT !.lastIndex = 0]]

(***************************************************************************)
(* The static dictionary.  The model carries the entries the examined      *)
(* inputs can touch, in the source's category and authoring order; every   *)
(* input of Inputs contains no other entry of LINGUISTICS as a whole unit, *)
(* so translate returns for it what the full dictionary returns.           *)
(***************************************************************************)
GEN_Z     == <<"G","E","N","_","Z">>
AAVE      == <<"A","A","V","E">>
TECH      == <<"T","E","C","H">>
EMOTIONAL == <<"E","M","O","T","I","O","N","A","L">>

\* The members of LinguisticCategory the model uses.
LinguisticCategory == {GEN_Z, AAVE, TECH, EMOTIONAL}

LINGUISTICS == <<
    [category |-> GEN_Z, terms |-> <<
        [slang |-> <<"n","o"," ","c","a","p">>, meaning |-> "honestly"],
        [slang |-> <<"c","a","p">>, meaning |-> "lie"],
        [slang |-> <<"d","e","a","d","a","s","s">>, meaning |-> "seriously"],
        [slang |-> <<"f","r"," ","f","r">>, meaning |-> "legitimately"],
        [slang |-> <<"f","r">>, meaning |-> "legit"],
        [slang |-> <<"f","i","r","e">>, meaning |-> "excellent"],
        [slang |-> <<"L">>, meaning |-> "failure"] >>],
    [category |-> AAVE, terms |-> <<
        [slang |-> <<"s","h","o","o","k">>, meaning |-> "shocked"],
        [slang |-> <<"p","r","e","s","s","e","d">>, meaning |-> "upset"] >>],
    [category |-> EMOTIONAL, terms |-> <<
        [slang |-> <<"s","h","o","o","k">>, meaning |-> "shocked"],
        [slang |-> <<"p","r","e","s","s","e","d">>, meaning |-> "stressed"] >>] >>

(***************************************************************************)
(* The constructor: compile every entry, then sort longest term first.     *)
(***************************************************************************)
\* One CompiledPattern, as both the constructor and addDynamicTerm build it.
CompilePattern(term, meaning, category) ==
    [regex    |-> NewRegExp(PatternSource(EscapeRegExp(term))),
     term     |-> term,
     meaning  |-> meaning,
     category |-> category]

\* The inner loop over Object.entries(terms) of one category.
RECURSIVE CompileCategory(_, _, _)
CompileCategory(category, terms, i) ==
    IF i > Len(terms) THEN <<>>
    ELSE <<CompilePattern(terms[i].slang, terms[i].meaning, category)>>
         \o CompileCategory(category, terms, i + 1)

\* The outer loop over Object.entries(this.db): allTerms.
RECURSIVE CompileAll(_, _)
CompileAll(db, c) ==
    IF c > Len(db) THEN <<>>
    ELSE CompileCategory(db[c].category, db[c].terms, 1) \o CompileAll(db, c + 1)

\* Insertion of p in front of the elements of its own length: a sort that
\* does not keep the order of equal lengths.
RECURSIVE InsertByLengthUnstable(_, _)
InsertByLengthUnstable(sorted, p) ==
    IF sorted = <<>> THEN <<p>>
    ELSE IF Len(Head(sorted).term) > Len(p.term)
         THEN <<Head(sorted)>> \o InsertByLengthUnstable(Tail(sorted), p)
         ELSE <<p>> \o sorted

\* Array.prototype.sort with (a, b) => b.term.length - a.term.length: a
\* stable sort, so equal lengths keep their order in allTerms.  Insertion of
\* p behind every element that is at least as long.
RECURSIVE InsertByLength(_, _)
InsertByLength(sorted, p) ==
    IF sorted = <<>> THEN <<p>>
    ELSE IF Len(Head(sorted).term) >= Len(p.term)
         THEN <<Head(sorted)>> \o InsertByLength(Tail(sorted), p)
         ELSE <<p>> \o sorted

RECURSIVE SortByLength(_, _)
SortByLength(all, n) ==
    IF n = 0 THEN <<>> ELSE InsertByLength(SortByLength(all, n - 1), all[n])

\* this.patterns after the constructor.
Constructor == LET allTerms == CompileAll(LINGUISTICS, 1)
               IN  SortByLength(allTerms, Len(allTerms))

(***************************************************************************)
(* The dynamic store: a Map from lowercased term to CompiledPattern, held  *)
(* as the sequence of its entries in insertion order.                      *)
(***************************************************************************)
MapHas(map, key) == \E i \in DOMAIN map : map[i].key = key

\* MapSet without the lookup of the key: every set appends an entry.
MapSetAppend(map, key, value) == Append(map, [key |-> key, value |-> value])

\* MapSet that moves an overwritten key to the end of the order.
MapSetMoveToEnd(map, key, value) ==
    Append(SelectSeq(map, LAMBDA m : m.key # key), [key |-> key, value |-> value])

\* MapSet that writes the fields of the value one by one and is observed
\* before the regex is written: an overwritten key holds the new term,
\* meaning and category with the regex of the old value.
MapSetTorn(map, key, value) ==
    IF MapHas(map, key)
    THEN [i \in DOMAIN map |->
             IF map[i].key = key
             THEN [key |-> key, value |-> [value EXCEPT !.regex = map[i].value.regex]]
             ELSE map[i]]
    ELSE Append(map, [key |-> key, value |-> value])

\* MapSet on a store that keeps one key: a new key evicts the old one.
MapSetEvicting(map, key, value) ==
    IF MapHas(map, key)
    THEN [i \in DOMAIN map |->
             IF map[i].key = key THEN [key |-> key, value |-> value] ELSE map[i]]
    ELSE <<[key |-> key, value |-> value]>>

\* Map.prototype.set: an existing key keeps its position and gets the new
\* value, a new key is appended.
MapSet(map, key, value) ==
    IF MapHas(map, key)
    THEN [i \in DOMAIN map |->
             IF map[i].key = key THEN [key |-> key, value |-> value] ELSE map[i]]
    ELSE Append(map, [key |-> key, value |-> value])

\* Map.prototype.values, in insertion order.
MapValues(map) == [i \in DOMAIN map |-> map[i].value]

\* addDynamicTerm keyed by the term as given, not lowercased.
addDynamicTermExactKey(dyn, term, meaning, category) ==
    MapSet(dyn, term, CompilePattern(term, meaning, category))

\* addDynamicTerm that deletes the key before it sets it: a registered
\* term moves to the end of the store's order.
addDynamicTermDeleteThenSet(dyn, term, meaning, category) ==
    MapSet(SelectSeq(dyn, LAMBDA m : m.key # toLowerCase(term)),
           toLowerCase(term), CompilePattern(term, meaning, category))

\* addDynamicTerm, as a function of the store.
addDynamicTerm(dyn, term, meaning, category) ==
    MapSet(dyn, toLowerCase(term), CompilePattern(term, meaning, category))

\* loadDynamicTerms walking the list from its last element to its first.
RECURSIVE loadDynamicTermsReversed(_, _)
loadDynamicTermsReversed(dyn, terms) ==
    IF terms = <<>> THEN dyn
    ELSE loadDynamicTermsReversed(
             addDynamicTerm(dyn, terms[Len(terms)].term, terms[Len(terms)].meaning,
                            terms[Len(terms)].category),
             SubSeq(terms, 1, Len(terms) - 1))

\* loadDynamicTerms: addDynamicTerm for each element, in list order.
RECURSIVE loadDynamicTerms(_, _)
loadDynamicTerms(dyn, terms) ==
    IF terms = <<>> THEN dyn
    ELSE loadDynamicTerms(
             addDynamicTerm(dyn, Head(terms).term, Head(terms).meaning,
                            Head(terms).category),
             Tail(terms))

(***************************************************************************)
(* translate.                                                              *)
(***************************************************************************)
\* A dedup key made of the term alone.
FoundKeyTermOnly(pattern) == pattern.term

\* The dedup key `${pattern.term}:${pattern.category}`.
FoundKey(pattern) == pattern.term \o <<":">> \o pattern.category

\* The loop body without the foundSet check: every match is pushed.
TestPatternNoDedup(pattern, input, acc) ==
    LET t == RegExpTest(pattern.regex, input)
    IN  IF t.matched
        THEN [pattern  |-> [pattern EXCEPT !.regex = [t.regex EXCEPT !.lastIndex = 0]],
              found    |-> Append(acc.found,
                                  [term     |-> pattern.term,
                                   meaning  |-> pattern.meaning,
                                   category |-> pattern.category]),
              foundSet |-> acc.foundSet,
              tested   |-> acc.tested + 1]
        ELSE [pattern  |-> [pattern EXCEPT !.regex = t.regex],
              found    |-> acc.found,
              foundSet |-> acc.foundSet,
              tested   |-> acc.tested + 1]

\* The loop body without `pattern.regex.lastIndex = 0`: after a match the
\* regex keeps the scan position test left in it.
TestPatternNoReset(pattern, input, acc) ==
    LET t == RegExpTest(pattern.regex, input)
    IN  [pattern  |-> [pattern EXCEPT !.regex = t.regex],
         found    |-> IF t.matched /\ FoundKey(pattern) \notin acc.foundSet
                      THEN Append(acc.found,
                                  [term     |-> pattern.term,
                                   meaning  |-> pattern.meaning,
                                   category |-> pattern.category])
                      ELSE acc.found,
         foundSet |-> IF t.matched THEN acc.foundSet \cup {FoundKey(pattern)}
                      ELSE acc.foundSet,
         tested   |-> acc.tested + 1]

\* The loop body with a pattern that is compiled again, from the
\* lowercased term, on every call.
TestPatternRecompile(pattern, input, acc) ==
    LET fresh == CompilePattern(toLowerCase(pattern.term), pattern.meaning,
                                pattern.category)
        t     == RegExpTest(fresh.regex, input)
    IN  [pattern  |-> fresh,
         found    |-> IF t.matched /\ FoundKey(pattern) \notin acc.foundSet
                      THEN Append(acc.found,
                                  [term     |-> pattern.term,
                                   meaning  |-> pattern.meaning,
                                   category |-> pattern.category])
                      ELSE acc.found,
         foundSet |-> IF t.matched THEN acc.foundSet \cup {FoundKey(pattern)}
                      ELSE acc.foundSet,
         tested   |-> acc.tested + 1]

\* The loop body with the scan position set to 0 in front of the test and
\* not behind it: the test starts at 0, and after a match the regex keeps
\* the position of the match's end.
TestPatternResetBefore(pattern, input, acc) ==
    LET t == RegExpTest([pattern.regex EXCEPT !.lastIndex = 0], input)
    IN  [pattern  |-> [pattern EXCEPT !.regex = t.regex],
         found    |-> IF t.matched /\ FoundKey(pattern) \notin acc.foundSet
                      THEN Append(acc.found,
                                  [term     |-> pattern.term,
                                   meaning  |-> pattern.meaning,
                                   category |-> pattern.category])
                      ELSE acc.found,
         foundSet |-> IF t.matched THEN acc.foundSet \cup {FoundKey(pattern)}
                      ELSE acc.foundSet,
         tested   |-> acc.tested + 1]

\* The body of either for loop for one pattern.  acc carries found, foundSet
\* and the number of test calls made; the pattern comes back with the scan
\* position the body leaves.
TestPattern(pattern, input, acc) ==
    LET t == RegExpTest(pattern.regex, input)
    IN  IF t.matched
        THEN [pattern  |-> [pattern EXCEPT !.regex = [t.regex EXCEPT !.lastIndex = 0]],
              found    |-> IF FoundKey(pattern) \in acc.foundSet
                           THEN acc.found
                           ELSE Append(acc.found,
                                       [term     |-> pattern.term,
                                        meaning  |-> pattern.meaning,
                                        category |-> pattern.category]),
              foundSet |-> acc.foundSet \cup {FoundKey(pattern)},
              tested   |-> acc.tested + 1]
        ELSE [pattern  |-> [pattern EXCEPT !.regex = t.regex],
              found    |-> acc.found,
              foundSet |-> acc.foundSet,
              tested   |-> acc.tested + 1]

\* A for loop that breaks at the first pattern that matches.
RECURSIVE TestAllFirstMatch(_, _, _, _)
TestAllFirstMatch(pats, i, input, acc) ==
    IF i > Len(pats) \/ acc.found # <<>>
    THEN [patterns |-> pats, found |-> acc.found, foundSet |-> acc.foundSet,
          tested |-> acc.tested]
    ELSE LET r == TestPattern(pats[i], input, acc)
         IN  TestAllFirstMatch([pats EXCEPT ![i] = r.pattern], i + 1, input,
                               [found |-> r.found, foundSet |-> r.foundSet,
                                tested |-> r.tested])

\* A for loop over a pattern list from element i on: every pattern is
\* tested.  Returns the list as the loop leaves it, found, foundSet and the
\* number of test calls.
RECURSIVE TestAll(_, _, _, _)
TestAll(pats, i, input, acc) ==
    IF i > Len(pats)
    THEN [patterns |-> pats, found |-> acc.found, foundSet |-> acc.foundSet,
          tested |-> acc.tested]
    ELSE LET r == TestPattern(pats[i], input, acc)
         IN  TestAll([pats EXCEPT ![i] = r.pattern], i + 1, input,
                     [found |-> r.found, foundSet |-> r.foundSet, tested |-> r.tested])

ConfidenceEmpty   == 100
ConfidenceBase    == 70
ConfidencePerTerm == 5
ConfidenceCap     == 100

Min(a, b) == IF a <= b THEN a ELSE b

\* The returned object with the matched input put in brackets as
\* translatedText.
BuildResultAnnotated(input, found) ==
    [original       |-> input,
     terms          |-> found,
     confidence     |-> Min(ConfidenceCap, ConfidenceBase + Len(found) * ConfidencePerTerm),
     translatedText |-> IF found = <<>> THEN input ELSE <<"[">> \o input \o <<"]">>]

\* The returned object with a confidence that is not capped.
BuildResultUncapped(input, found) ==
    [original       |-> input,
     terms          |-> found,
     confidence     |-> ConfidenceBase + Len(found) * ConfidencePerTerm,
     translatedText |-> input]

\* The returned object with a confidence that starts at the cap and loses
\* a step per entry, down to the base.
BuildResultDecreasing(input, found) ==
    [original       |-> input,
     terms          |-> found,
     confidence     |-> ConfidenceCap
                            - Min(ConfidenceCap - ConfidenceBase,
                                  Len(found) * ConfidencePerTerm),
     translatedText |-> input]

\* The returned object of a non-empty input; confidence in hundredths.
BuildResult(input, found) ==
    [original       |-> input,
     terms          |-> found,
     confidence     |-> Min(ConfidenceCap, ConfidenceBase + Len(found) * ConfidencePerTerm),
     translatedText |-> input]

\* The early return of an empty input: no loop runs.
translateEmpty(input, pats, dyn) ==
    [result |-> [original |-> <<>>, terms |-> <<>>,
                 confidence |-> ConfidenceEmpty, translatedText |-> input],
     patterns |-> pats, dynamicPatterns |-> dyn, tested |-> 0]

\* The two loops in the other order: the store first, the static list
\* second.
translateLoopsDynamicFirst(input, pats, dyn) ==
    LET dynamic == TestAll(MapValues(dyn), 1, input,
                           [found |-> <<>>, foundSet |-> {}, tested |-> 0])
        static  == TestAll(pats, 1, input,
                           [found |-> dynamic.found, foundSet |-> dynamic.foundSet,
                            tested |-> dynamic.tested])
    IN  [result          |-> BuildResult(input, static.found),
         patterns        |-> static.patterns,
         dynamicPatterns |-> [i \in DOMAIN dyn |->
                                 [key |-> dyn[i].key, value |-> dynamic.patterns[i]]],
         tested          |-> static.tested]

\* The two loops and the returned object.
translateLoops(input, pats, dyn) ==
    LET static  == TestAll(pats, 1, input,
                           [found |-> <<>>, foundSet |-> {}, tested |-> 0])
        dynamic == TestAll(MapValues(dyn), 1, input,
                           [found |-> static.found, foundSet |-> static.foundSet,
                            tested |-> static.tested])
    IN  [result          |-> BuildResult(input, dynamic.found),
         patterns        |-> static.patterns,
         dynamicPatterns |-> [i \in DOMAIN dyn |->
                                 [key |-> dyn[i].key, value |-> dynamic.patterns[i]]],
         tested          |-> dynamic.tested]

\* translate without the early return of an empty input.
translateNoEarlyReturn(input, pats, dyn) == translateLoops(input, pats, dyn)

\* translate(input) on an engine whose static list is pats and whose store
\* is dyn: the result, both pattern collections as the call leaves them, and
\* the number of test calls made.
translate(input, pats, dyn) ==
    IF input = <<>>
    THEN translateEmpty(input, pats, dyn)
    ELSE translateLoops(input, pats, dyn)

(***************************************************************************)
(* getRandomTerm.                                                          *)
(***************************************************************************)
\* Math.floor(Math.random() * n): any index of an n-element array, here as
\* a 1-based position.
RandomIndex(n) == 1 .. n

\* A pick among every compiled pattern of the engine, the dynamic ones
\* included, counted from the end of the list.
getRandomTermAnyPattern(db, c, k) ==
    LET all == patterns \o MapValues(dynamicPatterns)
        p   == all[Len(all) - ((k - 1) % Len(all))]
    IN  [term |-> p.term, meaning |-> p.meaning, category |-> p.category]

\* The entry getRandomTerm returns when the random picks are category c of
\* Object.keys(this.db) and entry k of Object.entries(this.db[cat]).
getRandomTerm(db, c, k) ==
    [term     |-> db[c].terms[k].slang,
     meaning  |-> db[c].terms[k].meaning,
     category |-> db[c].category]

(***************************************************************************)
(* The calls examined.                                                     *)
(***************************************************************************)
\* The most registrations (addDynamicTerm calls, counting those made by
\* loadDynamicTerms) in one behaviour.
MaxRegs == 2

\* The argument triples of the registrations.
TermEntries == {
    [term |-> <<"r","i","z","z">>, meaning |-> "charisma", category |-> GEN_Z],
    [term |-> <<"R","i","z","z">>, meaning |-> "charm", category |-> AAVE],
    [term |-> <<"c","+","+">>, meaning |-> "language", category |-> TECH],
    [term |-> <<>>, meaning |-> "nothing", category |-> GEN_Z],
    [term |-> <<"c","a","p">>, meaning |-> "hat", category |-> GEN_Z],
    [term |-> <<"C","a","p">>, meaning |-> "hat", category |-> GEN_Z] }

Inputs == {
    <<>>,
    <<"c","a","p">>,
    <<"C","A","P">>,
    <<"c","a","p","t","i","o","n","i","n","g"," ","t","h","i","s">>,
    <<"t","h","a","t","'","s"," ","c","a","p">>,
    <<"c","a","p"," ","c","a","p"," ","c","a","p">>,
    <<"n","o"," ","c","a","p"," ","f","r"," ","f","r">>,
    <<"n","o"," ","c","a","p"," ","f","r"," ","f","r"," ","s","h","o","o","k">>,
    <<"s","h","o","o","k">>,
    <<"p","r","e","s","s","e","d">>,
    <<"D","E","A","D","A","S","S"," ","t","h","i","s"," ","i","s"," ","F","I","R","E">>,
    <<"h","e"," ","h","a","s"," ","r","i","z","z">>,
    <<"R","I","Z","Z">>,
    <<"r","i","z","z","l","e","r">>,
    <<"c","+","+">>,
    <<"i"," ","u","s","e"," ","c","+","+">>,
    <<"c","+","+","1","1">>,
    <<"l">> }

RECURSIVE SeqsUpTo(_, _)
SeqsUpTo(S, n) ==
    IF n = 0 THEN {<<>>}
    ELSE LET shorter == SeqsUpTo(S, n - 1)
         IN  shorter \cup {Append(s, x) : s \in shorter, x \in S}

\* The value of result before the first translate call.
NoResult == [original |-> <<>>, terms |-> <<>>, confidence |-> 0, translatedText |-> <<>>]

Init ==
    /\ patterns = Constructor
    /\ dynamicPatterns = <<>>
    /\ result = NoResult
    /\ tested = 0
    /\ call = [op |-> "constructor"]
    /\ registered = <<>>
    /\ table = {}
    /\ tasks = <<>>
    /\ started = 0

AddDynamicTerm(e) ==
    /\ Len(registered) < MaxRegs
    /\ dynamicPatterns' = addDynamicTerm(dynamicPatterns, e.term, e.meaning, e.category)
    /\ registered' = Append(registered, e)
    /\ call' = [op |-> "addDynamicTerm", entry |-> e]
    /\ result' = NoResult
    /\ tested' = 0
    /\ UNCHANGED <<patterns, table, tasks, started>>

LoadDynamicTerms(terms) ==
    /\ Len(registered) + Len(terms) <= MaxRegs
    /\ dynamicPatterns' = loadDynamicTerms(dynamicPatterns, terms)
    /\ registered' = registered \o terms
    /\ call' = [op |-> "loadDynamicTerms", terms |-> terms]
    /\ result' = NoResult
    /\ tested' = 0
    /\ UNCHANGED <<patterns, table, tasks, started>>

Translate(input) ==
    \E r \in {translate(input, patterns, dynamicPatterns)} :
        /\ result' = r.result
        /\ tested' = r.tested
        /\ patterns' = r.patterns
        /\ dynamicPatterns' = r.dynamicPatterns
        /\ call' = [op |-> "translate", input |-> input]
        /\ UNCHANGED <<registered, table, tasks, started>>

GetRandomTerm ==
    \E c \in RandomIndex(Len(LINGUISTICS)) :
        \E k \in RandomIndex(Len(LINGUISTICS[c].terms)) :
            /\ result' = getRandomTerm(LINGUISTICS, c, k)
            /\ tested' = 0
            /\ call' = [op |-> "getRandomTerm"]
            /\ UNCHANGED <<patterns, dynamicPatterns, registered, table, tasks, started>>

Next ==
    \/ \E e \in TermEntries : AddDynamicTerm(e)
    \/ \E terms \in SeqsUpTo(TermEntries, MaxRegs) : LoadDynamicTerms(terms)
    \/ \E input \in Inputs : Translate(input)
    \/ GetRandomTerm

Spec == Init /\ [][Next]_vars

(***************************************************************************)
(* The calls examined for the order of the store: three registrations,     *)
(* so that a term can be registered, followed by another term, and then    *)
(* registered again.                                                       *)
(***************************************************************************)
MaxOrderRegs == 3

OrderEntries == {
    [term |-> <<"r","i","z","z">>, meaning |-> "charisma", category |-> GEN_Z],
    [term |-> <<"R","i","z","z">>, meaning |-> "charm", category |-> AAVE],
    [term |-> <<"C","a","p">>, meaning |-> "hat", category |-> GEN_Z] }

OrderInputs == {
    <<>>,
    <<"c","a","p">>,
    <<"h","e"," ","h","a","s"," ","r","i","z","z">>,
    <<"r","i","z","z"," ","n","o"," ","c","a","p">> }

OrderAddDynamicTerm(e) ==
    /\ Len(registered) < MaxOrderRegs
    /\ dynamicPatterns' = addDynamicTerm(dynamicPatterns, e.term, e.meaning, e.category)
    /\ registered' = Append(registered, e)
    /\ call' = [op |-> "addDynamicTerm", entry |-> e]
    /\ result' = NoResult
    /\ tested' = 0
    /\ UNCHANGED <<patterns, table, tasks, started>>

OrderLoadDynamicTerms(terms) ==
    /\ Len(registered) + Len(terms) <= MaxOrderRegs
    /\ dynamicPatterns' = loadDynamicTerms(dynamicPatterns, terms)
    /\ registered' = registered \o terms
    /\ call' = [op |-> "loadDynamicTerms", terms |-> terms]
    /\ result' = NoResult
    /\ tested' = 0
    /\ UNCHANGED <<patterns, table, tasks, started>>

OrderNext ==
    \/ \E e \in OrderEntries : OrderAddDynamicTerm(e)
    \/ \E terms \in SeqsUpTo(OrderEntries, MaxOrderRegs) : OrderLoadDynamicTerms(terms)
    \/ \E input \in OrderInputs : Translate(input)

SpecOrder == Init /\ [][OrderNext]_vars

(***************************************************************************)
(* The calls examined with terms and categories as open strings: a term    *)
(* found by discovery may hold any character, and loadDynamicTerms casts   *)
(* the category of a database row, any string, to LinguisticCategory.      *)
(***************************************************************************)
MaxOpenRegs == 2

OpenEntries == {
    [term |-> <<"u","w","u",":","o","w","o">>, meaning |-> "cute, surprised", category |-> <<"K","A","O","M","O","J","I">>],
    [term |-> <<"u","w","u">>, meaning |-> "cute", category |-> <<"o","w","o",":","K","A","O","M","O","J","I">>],
    [term |-> <<"u","w","u">>, meaning |-> "cute", category |-> <<"K","A","O","M","O","J","I">>],
    [term |-> <<"o","w","o">>, meaning |-> "surprised", category |-> <<"K","A","O","M","O","J","I">>],
    [term |-> <<"a",".","b">>, meaning |-> "a dot b", category |-> TECH],
    [term |-> <<"a","+","b">>, meaning |-> "a plus b", category |-> TECH] }

OpenInputs == {
    <<>>,
    <<"u","w","u",":","o","w","o">>,
    <<"u","w","u">>,
    <<"u","w","u"," ","o","w","o">>,
    <<"u","w","u","o","w","o">>,
    <<"a",".","b">>,
    <<"a","x","b">>,
    <<"a","+","b">>,
    <<"a","a","b">> }

OpenAddDynamicTerm(e) ==
    /\ Len(registered) < MaxOpenRegs
    /\ dynamicPatterns' = addDynamicTerm(dynamicPatterns, e.term, e.meaning, e.category)
    /\ registered' = Append(registered, e)
    /\ call' = [op |-> "addDynamicTerm", entry |-> e]
    /\ result' = NoResult
    /\ tested' = 0
    /\ UNCHANGED <<patterns, table, tasks, started>>

OpenLoadDynamicTerms(terms) ==
    /\ Len(registered) + Len(terms) <= MaxOpenRegs
    /\ dynamicPatterns' = loadDynamicTerms(dynamicPatterns, terms)
    /\ registered' = registered \o terms
    /\ call' = [op |-> "loadDynamicTerms", terms |-> terms]
    /\ result' = NoResult
    /\ tested' = 0
    /\ UNCHANGED <<patterns, table, tasks, started>>

OpenNext ==
    \/ \E e \in OpenEntries : OpenAddDynamicTerm(e)
    \/ \E terms \in SeqsUpTo(OpenEntries, MaxOpenRegs) : OpenLoadDynamicTerms(terms)
    \/ \E input \in OpenInputs : Translate(input)

SpecOpen == Init /\ [][OpenNext]_vars

(***************************************************************************)
(* The slang discovery service of src/unnamed/part_003, the caller of the  *)
(* engine's registration methods.  Its three functions are async: a call   *)
(* runs to its next await in one step, and calls interleave at the awaits. *)
(* A database operation takes effect in a step of its own, between the     *)
(* step that issues it and the step that continues behind the await.       *)
(***************************************************************************)
\* The most calls of the service that begin in one behaviour.
MaxCalls == 3

\* Two calls can be under way at a time.
Slots == {1, 2}

\* String.prototype.trim, for the space character.
RECURSIVE TrimStart(_)
TrimStart(s) == IF s # <<>> /\ Head(s) = " " THEN TrimStart(Tail(s)) ELSE s

RECURSIVE TrimEnd(_)
TrimEnd(s) ==
    IF s # <<>> /\ s[Len(s)] = " " THEN TrimEnd(SubSeq(s, 1, Len(s) - 1)) ELSE s

Trim(s) == TrimEnd(TrimStart(s))

\* term.toLowerCase().trim()
Normalize(term) == Trim(toLowerCase(term))

\* The terms looked up: one outside the static dictionary, written with a
\* capital and a trailing space, and one inside it.
DiscoveryTerms == {<<"R","i","z","z"," ">>, <<"c","a","p">>}

\* A row of dynamic_slang, with the columns the service reads.
Row(term, meaning, category, usageCount) ==
    [term |-> term, meaning |-> meaning, category |-> category,
     usageCount |-> usageCount]

\* What the table may hold when the process starts.
InitialTables == {{}, {Row(<<"r","i","z","z">>, "charisma", GEN_Z, 1)}}

\* The top definitions Urban Dictionary may return for a term: the word as
\* the site spells it and the first line of the definition, which may be
\* empty.
UrbanDictionary == {
    [word |-> <<"r","i","z","z">>, meaning |-> "charisma"],
    [word |-> <<"R","i","z","z">>, meaning |-> "charm"],
    [word |-> <<"r","i","z","z">>, meaning |-> ""] }

\* storage.findDynamicSlangTerm: the row whose term column is term, as a
\* list of no or one row.
findDynamicSlangTerm(rows, term) ==
    IF \E r \in rows : r.term = term
    THEN <<CHOOSE r \in rows : r.term = term>>
    ELSE <<>>

\* storage.incrementSlangUsage: usage_count + 1 in the row of term.
incrementSlangUsage(rows, term) ==
    {IF r.term = term THEN [r EXCEPT !.usageCount = @ + 1] ELSE r : r \in rows}

\* The unique constraint of the term column lets the row in.
UniqueTerm(rows, row) == \A r \in rows : r.term # row.term

\* storage.createDynamicSlangTerm, when the insert succeeds.
createDynamicSlangTerm(rows, row) == rows \cup {row}

\* storage.getAllDynamicSlang: the rows in any order (the query has no
\* ORDER BY).
getAllDynamicSlang(rows) ==
    {seq \in [1 .. Cardinality(rows) -> rows] : Range(seq) = rows}

\* A slot in which no call has begun.
IdleTask ==
    [op |-> "none", pc |-> "idle", term |-> <<>>, rows |-> <<>>, ud |-> <<>>,
     ret |-> <<>>, thrown |-> FALSE]

\* The values findSlangTerm and discoverAndCacheSlang return.
StaticResult(found) ==
    [found |-> TRUE, term |-> found.term, meaning |-> found.meaning,
     category |-> found.category, source |-> "static"]

DatabaseResult(row) ==
    [found |-> TRUE, term |-> row.term, meaning |-> row.meaning,
     category |-> row.category, source |-> "database"]

NotFoundResult(term) ==
    [found |-> FALSE, term |-> term, meaning |-> "", category |-> <<>>,
     source |-> "none"]

UrbanDictionaryResult(def) ==
    [found |-> TRUE, term |-> def.word, meaning |-> def.meaning,
     category |-> GEN_Z, source |-> "urbandictionary"]

\* The engine calls the service makes, with their effect on the engine.
EngineTranslates(input, r) ==
    /\ result' = r.result
    /\ tested' = r.tested
    /\ patterns' = r.patterns
    /\ dynamicPatterns' = r.dynamicPatterns
    /\ call' = [op |-> "translate", input |-> input]
    /\ UNCHANGED registered

EngineAdds(e) ==
    /\ dynamicPatterns' = addDynamicTerm(dynamicPatterns, e.term, e.meaning, e.category)
    /\ registered' = Append(registered, e)
    /\ call' = [op |-> "addDynamicTerm", entry |-> e]
    /\ result' = NoResult
    /\ tested' = 0
    /\ UNCHANGED patterns

EngineLoads(terms) ==
    /\ dynamicPatterns' = loadDynamicTerms(dynamicPatterns, terms)
    /\ registered' = registered \o terms
    /\ call' = [op |-> "loadDynamicTerms", terms |-> terms]
    /\ result' = NoResult
    /\ tested' = 0
    /\ UNCHANGED patterns

EngineIdle == UNCHANGED <<patterns, dynamicPatterns, result, tested, call, registered>>

CanBegin(s) == tasks[s].pc \in {"idle", "done"} /\ started < MaxCalls

\* The task of a call that ran engine.translate(normalized) at the top of
\* findSlangTerm: it returns the first term found with source 'static', or
\* waits for storage.findDynamicSlangTerm.
AfterStaticCheck(op, term, r) ==
    IF Len(r.result.terms) > 0
    THEN [IdleTask EXCEPT !.op = op, !.pc = "done", !.term = term,
                          !.ret = <<StaticResult(r.result.terms[1])>>]
    ELSE [IdleTask EXCEPT !.op = op, !.pc = "await_find", !.term = term]

\* findSlangTerm up to its first await.
FindSlangTerm(s, term) ==
    /\ CanBegin(s)
    /\ \E r \in {translate(Normalize(term), patterns, dynamicPatterns)} :
           /\ EngineTranslates(Normalize(term), r)
           /\ tasks' = [tasks EXCEPT ![s] = AfterStaticCheck("find", term, r)]
    /\ started' = started + 1
    /\ UNCHANGED table

\* discoverAndCacheSlang up to its first await, which is the first await of
\* the findSlangTerm it calls.
DiscoverAndCacheSlang(s, term) ==
    /\ CanBegin(s)
    /\ \E r \in {translate(Normalize(term), patterns, dynamicPatterns)} :
           /\ EngineTranslates(Normalize(term), r)
           /\ tasks' = [tasks EXCEPT ![s] = AfterStaticCheck("discover", term, r)]
    /\ started' = started + 1
    /\ UNCHANGED table

\* storage.findDynamicSlangTerm answers and findSlangTerm goes on: to the
\* increment when there is a row; without a row findSlangTerm returns not
\* found, and discoverAndCacheSlang calls lookupUrbanDictionary.
FindAnswered(s) ==
    /\ tasks[s].pc = "await_find"
    /\ LET rows == findDynamicSlangTerm(table, Normalize(tasks[s].term))
       IN  tasks' = [tasks EXCEPT ![s] =
               IF rows # <<>>
               THEN [@ EXCEPT !.pc = "await_incr", !.rows = rows]
               ELSE IF tasks[s].op = "find"
                    THEN [@ EXCEPT !.pc = "done",
                                   !.ret = <<NotFoundResult(Normalize(tasks[s].term))>>]
                    ELSE [@ EXCEPT !.pc = "await_ud"]]
    /\ EngineIdle
    /\ UNCHANGED <<table, started>>

\* A storage call of findSlangTerm rejects: nothing catches it in
\* findSlangTerm or in discoverAndCacheSlang.
FindRejected(s) ==
    /\ tasks[s].pc \in {"await_find", "await_incr"}
    /\ tasks' = [tasks EXCEPT ![s] = [@ EXCEPT !.pc = "done", !.thrown = TRUE]]
    /\ EngineIdle
    /\ UNCHANGED <<table, started>>

\* storage.incrementSlangUsage takes effect.
UsageIncremented(s) ==
    /\ tasks[s].pc = "await_incr"
    /\ table' = incrementSlangUsage(table, Normalize(tasks[s].term))
    /\ tasks' = [tasks EXCEPT ![s] = [@ EXCEPT !.pc = "got_incr"]]
    /\ EngineIdle
    /\ UNCHANGED started

\* findSlangTerm behind the increment: the row goes into the runtime cache
\* and is returned with source 'database'.
FindReturnsRow(s) ==
    /\ tasks[s].pc = "got_incr"
    /\ EngineAdds([term |-> tasks[s].rows[1].term, meaning |-> tasks[s].rows[1].meaning,
                   category |-> tasks[s].rows[1].category])
    /\ tasks' = [tasks EXCEPT ![s] =
           [@ EXCEPT !.pc = "done", !.ret = <<DatabaseResult(tasks[s].rows[1])>>]]
    /\ UNCHANGED <<table, started>>

\* lookupUrbanDictionary answers (it catches its own errors) and
\* discoverAndCacheSlang goes on: to the insert when there is a definition
\* with a non-empty meaning, otherwise it returns not found.
LookupAnswered(s) ==
    /\ tasks[s].pc = "await_ud"
    /\ \/ \E def \in UrbanDictionary :
              tasks' = [tasks EXCEPT ![s] =
                  IF def.meaning # ""
                  THEN [@ EXCEPT !.pc = "await_insert", !.ud = <<def>>]
                  ELSE [@ EXCEPT !.pc = "done", !.ret = <<NotFoundResult(tasks[s].term)>>]]
       \/ tasks' = [tasks EXCEPT ![s] =
              [@ EXCEPT !.pc = "done", !.ret = <<NotFoundResult(tasks[s].term)>>]]
    /\ EngineIdle
    /\ UNCHANGED <<table, started>>

\* storage.createDynamicSlangTerm inserts the row.
RowInserted(s) ==
    /\ tasks[s].pc = "await_insert"
    /\ LET def == tasks[s].ud[1]
           row == Row(def.word, def.meaning, GEN_Z, 1)
       IN  /\ UniqueTerm(table, row)
           /\ table' = createDynamicSlangTerm(table, row)
    /\ tasks' = [tasks EXCEPT ![s] = [@ EXCEPT !.pc = "got_insert"]]
    /\ EngineIdle
    /\ UNCHANGED started

\* storage.createDynamicSlangTerm rejects: the term is in the table (the
\* unique constraint), or the database fails.
InsertRejected(s) ==
    /\ tasks[s].pc = "await_insert"
    /\ tasks' = [tasks EXCEPT ![s] = [@ EXCEPT !.pc = "insert_failed"]]
    /\ EngineIdle
    /\ UNCHANGED <<table, started>>

\* discoverAndCacheSlang behind the insert: the term goes into the runtime
\* cache and the definition is returned.
DiscoverCaches(s) ==
    /\ tasks[s].pc = "got_insert"
    /\ EngineAdds([term |-> tasks[s].ud[1].word, meaning |-> tasks[s].ud[1].meaning,
                   category |-> GEN_Z])
    /\ tasks' = [tasks EXCEPT ![s] =
           [@ EXCEPT !.pc = "done", !.ret = <<UrbanDictionaryResult(tasks[s].ud[1])>>]]
    /\ UNCHANGED <<table, started>>

\* A catch block that also fills the runtime cache.
DiscoverCatchesAndCaches(s) ==
    /\ tasks[s].pc = "insert_failed"
    /\ EngineAdds([term |-> tasks[s].ud[1].word, meaning |-> tasks[s].ud[1].meaning,
                   category |-> GEN_Z])
    /\ tasks' = [tasks EXCEPT ![s] =
           [@ EXCEPT !.pc = "done", !.ret = <<UrbanDictionaryResult(tasks[s].ud[1])>>]]
    /\ UNCHANGED <<table, started>>

\* The catch block of discoverAndCacheSlang: the error is logged and the
\* definition is returned.
DiscoverCatches(s) ==
    /\ tasks[s].pc = "insert_failed"
    /\ tasks' = [tasks EXCEPT ![s] =
           [@ EXCEPT !.pc = "done", !.ret = <<UrbanDictionaryResult(tasks[s].ud[1])>>]]
    /\ EngineIdle
    /\ UNCHANGED <<table, started>>

\* initializeSlangDiscovery up to its await.
InitializeSlangDiscovery(s) ==
    /\ CanBegin(s)
    /\ tasks' = [tasks EXCEPT ![s] = [IdleTask EXCEPT !.op = "init", !.pc = "await_all"]]
    /\ started' = started + 1
    /\ EngineIdle
    /\ UNCHANGED table

\* storage.getAllDynamicSlang answers with the rows of the table.
AllRowsAnswered(s) ==
    /\ tasks[s].pc = "await_all"
    /\ \E rows \in getAllDynamicSlang(table) :
           tasks' = [tasks EXCEPT ![s] = [@ EXCEPT !.pc = "got_all", !.rows = rows]]
    /\ EngineIdle
    /\ UNCHANGED <<table, started>>

\* storage.getAllDynamicSlang rejects.
AllRowsRejected(s) ==
    /\ tasks[s].pc = "await_all"
    /\ tasks' = [tasks EXCEPT ![s] = [@ EXCEPT !.pc = "all_failed"]]
    /\ EngineIdle
    /\ UNCHANGED <<table, started>>

\* initializeSlangDiscovery behind the await: the rows are loaded into the
\* runtime cache.
InitializeLoads(s) ==
    /\ tasks[s].pc = "got_all"
    /\ EngineLoads([i \in DOMAIN tasks[s].rows |->
                       [term |-> tasks[s].rows[i].term,
                        meaning |-> tasks[s].rows[i].meaning,
                        category |-> tasks[s].rows[i].category]])
    /\ tasks' = [tasks EXCEPT ![s] = [@ EXCEPT !.pc = "done"]]
    /\ UNCHANGED <<table, started>>

\* The catch block of initializeSlangDiscovery.
InitializeCatches(s) ==
    /\ tasks[s].pc = "all_failed"
    /\ tasks' = [tasks EXCEPT ![s] = [@ EXCEPT !.pc = "done"]]
    /\ EngineIdle
    /\ UNCHANGED <<table, started>>

InitDiscovery ==
    /\ patterns = Constructor
    /\ dynamicPatterns = <<>>
    /\ result = NoResult
    /\ tested = 0
    /\ call = [op |-> "constructor"]
    /\ registered = <<>>
    /\ table \in InitialTables
    /\ tasks = [s \in Slots |-> IdleTask]
    /\ started = 0

NextDiscovery ==
    \E s \in Slots :
        \/ \E term \in DiscoveryTerms : FindSlangTerm(s, term)
        \/ \E term \in DiscoveryTerms : DiscoverAndCacheSlang(s, term)
        \/ InitializeSlangDiscovery(s)
        \/ FindAnswered(s)
        \/ FindRejected(s)
        \/ UsageIncremented(s)
        \/ FindReturnsRow(s)
        \/ LookupAnswered(s)
        \/ RowInserted(s)
        \/ InsertRejected(s)
        \/ DiscoverCaches(s)
        \/ DiscoverCatches(s)
        \/ AllRowsAnswered(s)
        \/ AllRowsRejected(s)
        \/ InitializeLoads(s)
        \/ InitializeCatches(s)

SpecDiscovery == InitDiscovery /\ [][NextDiscovery]_vars

(***************************************************************************)
(* Vocabulary of the properties.                                           *)
(***************************************************************************)
\* Every compiled pattern of the engine, static and dynamic.
AllPatterns == Range(patterns) \cup Range(MapValues(dynamicPatterns))

\* The entries of the static dictionary, as translate reports them.
StaticEntries ==
    UNION {{[term     |-> LINGUISTICS[c].terms[k].slang,
             meaning  |-> LINGUISTICS[c].terms[k].meaning,
             category |-> LINGUISTICS[c].category] : k \in DOMAIN LINGUISTICS[c].terms} :
           c \in DOMAIN LINGUISTICS}

\* The entries of the last result, and the terms among them.
Reported == Range(result.terms)

ReportedTerm(term) == \E e \in Reported : e.term = term

\* term occurs in input at index pos, letter case aside.
OccursAt(term, input, pos) ==
    /\ pos >= 0
    /\ pos + Len(term) <= Len(input)
    /\ toLowerCase(SubSeq(input, pos + 1, pos + Len(term))) = toLowerCase(term)

\* The occurrence at pos has a non-word character or the string's start or
\* end on both sides.
Delimited(term, input, pos) ==
    /\ pos = 0 \/ ~IsWordChar(input[pos])
    /\ pos + Len(term) = Len(input) \/ ~IsWordChar(input[pos + Len(term) + 1])

\* term occurs in input as a whole unit.
WholeUnit(term, input) ==
    \E pos \in 0 .. Len(input) : OccursAt(term, input, pos) /\ Delimited(term, input, pos)

\* term occurs in input, and only inside larger words.
OnlyEmbedded(term, input) ==
    /\ \E pos \in 0 .. Len(input) : OccursAt(term, input, pos)
    /\ \A pos \in 0 .. Len(input) :
           OccursAt(term, input, pos) => ~Delimited(term, input, pos)

Translated == call.op = "translate"

(***************************************************************************)
(* C1.  Pass-through: whatever has been registered, the result of          *)
(* translate(s) has translatedText = s and original = s.                   *)
(***************************************************************************)
C1_PassThrough ==
    Translated => /\ result.translatedText = call.input
                  /\ result.original = call.input

\* A non-empty input with matches from the static list and from the store.
C1_Witness ==
    /\ Translated
    /\ call.input # <<>>
    /\ \E e \in Reported : e \in StaticEntries
    /\ \E e \in Reported : e \notin StaticEntries
    /\ result.translatedText = call.input

(***************************************************************************)
(* C2.  translate("") returns {original: "", terms: [], confidence: 1,     *)
(* translatedText: ""} in every engine state, also with an empty term in   *)
(* the store, and makes no test call.                                      *)
(***************************************************************************)
C2_EmptyInput ==
    (Translated /\ call.input = <<>>) =>
        /\ result = [original |-> <<>>, terms |-> <<>>, confidence |-> 100,
                     translatedText |-> <<>>]
        /\ tested = 0

\* The empty input translated while the store holds the empty term.
C2_Witness ==
    /\ Translated
    /\ call.input = <<>>
    /\ \E p \in Range(MapValues(dynamicPatterns)) : p.term = <<>>
    /\ result.confidence = 100

(***************************************************************************)
(* C3.  A term (static or dynamic) that occurs in the input only inside    *)
(* larger words is not reported, and a term with an occurrence delimited   *)
(* on both sides is reported.                                              *)
(***************************************************************************)
C3_BoundaryCorrectness ==
    Translated =>
        \A p \in AllPatterns :
            /\ OnlyEmbedded(p.term, call.input) => ~ReportedTerm(p.term)
            /\ WholeUnit(p.term, call.input) => ReportedTerm(p.term)

(***************************************************************************)
(* C4.  No two entries of a result have the same term and the same         *)
(* category.                                                               *)
(***************************************************************************)
C4_NoDuplicates ==
    Translated =>
        \A i, j \in DOMAIN result.terms :
            (result.terms[i].term = result.terms[j].term
             /\ result.terms[i].category = result.terms[j].category) => i = j

\* "cap cap cap" translated while the store holds a pattern for cap under
\* GEN_Z, the pair of a static pattern: one entry for the pair.
C4_Witness ==
    /\ Translated
    /\ call.input = <<"c","a","p"," ","c","a","p"," ","c","a","p">>
    /\ \E p \in Range(MapValues(dynamicPatterns)) : p.term = <<"c","a","p">> /\ p.category = GEN_Z
    /\ Cardinality({i \in DOMAIN result.terms : result.terms[i].term = <<"c","a","p">>}) = 1

(***************************************************************************)
(* C5.  A term listed under two categories of the static dictionary that   *)
(* occurs as a whole unit is reported once for each category, with the     *)
(* meaning stored under that category.                                     *)
(***************************************************************************)
ListedTwice(term) == Cardinality({s \in StaticEntries : s.term = term}) >= 2

C5_CrossCategory ==
    Translated =>
        \A s \in StaticEntries :
            (ListedTwice(s.term) /\ WholeUnit(s.term, call.input)) =>
                /\ s \in Reported
                /\ \A i, j \in DOMAIN result.terms :
                       (result.terms[i].term = s.term
                        /\ result.terms[i].category = s.category
                        /\ result.terms[j].term = s.term
                        /\ result.terms[j].category = s.category) =>
                           (i = j /\ result.terms[i].meaning = s.meaning)

\* "pressed" reported under AAVE as upset and under EMOTIONAL as stressed.
C5_Witness ==
    /\ Translated
    /\ call.input = <<"p","r","e","s","s","e","d">>
    /\ [term |-> <<"p","r","e","s","s","e","d">>, meaning |-> "upset", category |-> AAVE] \in Reported
    /\ [term |-> <<"p","r","e","s","s","e","d">>, meaning |-> "stressed", category |-> EMOTIONAL] \in Reported

(***************************************************************************)
(* C6.  Matching is case-insensitive: a term that occurs as a whole unit   *)
(* in the input, in any letter casing, is reported, and every reported     *)
(* term is spelled as a compiled pattern stores it.                        *)
(***************************************************************************)
C6_CaseInsensitive ==
    Translated =>
        /\ \A p \in AllPatterns : WholeUnit(p.term, call.input) => ReportedTerm(p.term)
        /\ \A e \in Reported : \E p \in AllPatterns : p.term = e.term

(***************************************************************************)
(* C7.  Every compiled pattern is tested and none suppresses another: the  *)
(* (term, category) pairs of the result are exactly the pairs of the       *)
(* patterns that match the input, and a static phrase that matches leaves  *)
(* the static terms inside it reported as well.                            *)
(***************************************************************************)
Pairs(entries) == {<<e.term, e.category>> : e \in entries}

Matching(input) == {p \in AllPatterns : RegExpTest(p.regex, input).matched}

IsLatest(e) ==
    \E i \in DOMAIN registered :
        /\ registered[i] = e
        /\ \A j \in DOMAIN registered :
               j > i => toLowerCase(registered[j].term) # toLowerCase(e.term)

C8_RegistrationVisibility ==
    Translated =>
        \A e \in TermEntries :
            (\A s \in StaticEntries : s.term # e.term) =>
                /\ (\A i \in DOMAIN registered : registered[i].term # e.term)
                       => ~ReportedTerm(e.term)
                /\ (IsLatest(e) /\ WholeUnit(e.term, call.input)) => e \in Reported

(***************************************************************************)
(* C9.  The store holds one pattern per lowercased term, the one of the    *)
(* most recent registration of that term; translate reports no entry of    *)
(* an overwritten registration.                                            *)
(***************************************************************************)
EntryOf(p) == [term |-> p.term, meaning |-> p.meaning, category |-> p.category]

C9_LastWriteWins ==
    /\ \A i, j \in DOMAIN dynamicPatterns :
           toLowerCase(dynamicPatterns[i].value.term)
               = toLowerCase(dynamicPatterns[j].value.term) => i = j
    /\ \A i \in DOMAIN dynamicPatterns :
           /\ dynamicPatterns[i].key = toLowerCase(dynamicPatterns[i].value.term)
           /\ IsLatest(EntryOf(dynamicPatterns[i].value))
    /\ Translated => \A e \in Reported : e \in StaticEntries \/ IsLatest(e)

\* rizz registered, then Rizz with another meaning and category; "he has
\* rizz" reports the second registration and not the first.
C9_Witness ==
    /\ Translated
    /\ call.input = <<"h","e"," ","h","a","s"," ","r","i","z","z">>
    /\ registered = <<[term |-> <<"r","i","z","z">>, meaning |-> "charisma", category |-> GEN_Z],
                      [term |-> <<"R","i","z","z">>, meaning |-> "charm", category |-> AAVE]>>
    /\ [term |-> <<"R","i","z","z">>, meaning |-> "charm", category |-> AAVE] \in Reported
    /\ ~ReportedTerm(<<"r","i","z","z">>)

(***************************************************************************)
(* C10.  Registration is idempotent: a second addDynamicTerm with the      *)
(* arguments of the addDynamicTerm just made leaves the store, its order   *)
(* and the result of translate on every input as they were.                *)
(***************************************************************************)
RepeatedRegistration ==
    /\ call.op = "addDynamicTerm"
    /\ call'.op = "addDynamicTerm"
    /\ call'.entry = call.entry

C10_Idempotent ==
    [][RepeatedRegistration =>
          /\ dynamicPatterns' = dynamicPatterns
          /\ \A input \in Inputs :
                 translate(input, patterns', dynamicPatterns').result
                     = translate(input, patterns, dynamicPatterns).result]_vars

\* The same registration made twice in a row; the store holds one pattern.
C10_Witness ==
    /\ call.op = "addDynamicTerm"
    /\ registered = <<call.entry, call.entry>>
    /\ Len(dynamicPatterns) = 1
    /\ EntryOf(dynamicPatterns[1].value) = call.entry

(***************************************************************************)
(* C11.  loadDynamicTerms(list) leaves the store as one addDynamicTerm     *)
(* call per element would, made in list order: a later element with the    *)
(* lowercased term of an earlier one overwrites it, and an empty list      *)
(* changes nothing.                                                        *)
(***************************************************************************)
\* The store after addDynamicTerm has been called for terms[1], then
\* terms[2], ... on the store dyn.
RECURSIVE AddEach(_, _)
AddEach(dyn, terms) ==
    IF terms = <<>> THEN dyn
    ELSE LET n == Len(terms)
         IN  addDynamicTerm(AddEach(dyn, SubSeq(terms, 1, n - 1)),
                            terms[n].term, terms[n].meaning, terms[n].category)

C11_LoadIsRepeatedAdd ==
    [][call'.op = "loadDynamicTerms" =>
          /\ dynamicPatterns' = AddEach(dynamicPatterns, call'.terms)
          /\ patterns' = patterns
          /\ call'.terms = <<>> => dynamicPatterns' = dynamicPatterns]_vars

\* A list of two elements with the same lowercased term and different
\* meanings has been loaded: one pattern, that of the second element.
C11_Witness ==
    /\ call.op = "loadDynamicTerms"
    /\ Len(call.terms) = 2
    /\ call.terms[1] # call.terms[2]
    /\ toLowerCase(call.terms[1].term) = toLowerCase(call.terms[2].term)
    /\ call.terms[1].meaning # call.terms[2].meaning
    /\ Len(dynamicPatterns) = 1
    /\ EntryOf(dynamicPatterns[1].value) = call.terms[2]

(***************************************************************************)
(* C12.  Registering the empty string as a term, by addDynamicTerm or as   *)
(* an element of loadDynamicTerms, adds no pattern to the store: the store *)
(* and every later translate result are those of the same calls without    *)
(* the empty-term registrations.                                           *)
(***************************************************************************)
\* The registrations of a log whose term is not the empty string.
NonEmptyTerms(log) == SelectSeq(log, LAMBDA e : e.term # <<>>)

\* The keys and entries of a store, in its order.
StoreEntries(dyn) ==
    [i \in DOMAIN dyn |-> [key |-> dyn[i].key, entry |-> EntryOf(dyn[i].value)]]

C12_EmptyTermIgnored ==
    LET without == AddEach(<<>>, NonEmptyTerms(registered))
    IN  /\ StoreEntries(dynamicPatterns) = StoreEntries(without)
        /\ Translated =>
               result = translate(call.input, Constructor, without).result

(***************************************************************************)
(* C13.  For a non-empty input the confidence, in hundredths, is           *)
(* min(100, 70 + 5n) with n the number of entries of the returned terms    *)
(* list, entries from static and from dynamic patterns counted alike.      *)
(***************************************************************************)
\* The entries of the last result that come from the static list and from
\* the store.
StaticReported  == {i \in DOMAIN result.terms : result.terms[i] \in StaticEntries}
DynamicReported == {i \in DOMAIN result.terms : result.terms[i] \notin StaticEntries}

C13_ConfidenceFormula ==
    (Translated /\ call.input # <<>>) =>
        LET n == Len(result.terms)
        IN  result.confidence = (IF 70 + 5 * n <= 100 THEN 70 + 5 * n ELSE 100)

\* "no cap fr fr shook" with two dynamic terms that match: six static and
\* two dynamic entries, the sum 70 + 5 * 8 is above the cap.
C13_Witness ==
    /\ Translated
    /\ call.input = <<"n","o"," ","c","a","p"," ","f","r"," ","f","r"," ","s","h","o","o","k">>
    /\ Cardinality(StaticReported) = 6
    /\ Cardinality(DynamicReported) = 2
    /\ result.confidence = 100

(***************************************************************************)
(* C14.  Confidence bounds.  As stated: for every input, the empty one     *)
(* included, confidence lies in [70, 100] hundredths; of two inputs        *)
(* translated in the same engine state the one with at least as many       *)
(* distinct matched (term, category) pairs has a confidence at least as    *)
(* high; six or more matches give 100.                                     *)
(***************************************************************************)
\* The number of distinct (term, category) pairs of a result.
MatchedPairs(r) == Cardinality(Pairs(Range(r.terms)))

\* This step is a translate call that follows a translate call: no
\* registration lies between the two, they run in the same engine state.
ConsecutiveTranslates == Translated /\ call'.op = "translate"

InBounds(r) ==
    /\ 70 <= r.confidence
    /\ r.confidence <= 100
    /\ MatchedPairs(r) >= 6 => r.confidence = 100

C14_ConfidenceMonotone ==
    [][/\ call'.op = "translate" => InBounds(result')
       /\ ConsecutiveTranslates =>
              /\ MatchedPairs(result) <= MatchedPairs(result')
                     => result.confidence <= result'.confidence
              /\ MatchedPairs(result') <= MatchedPairs(result)
                     => result'.confidence <= result.confidence]_vars

(***************************************************************************)
(* C14, amended.  For every input, the empty one included, confidence      *)
(* lies in [70, 100] hundredths and is 100 for six or more matches; of     *)
(* two non-empty inputs translated in the same engine state the one with   *)
(* at least as many distinct matched (term, category) pairs has a          *)
(* confidence at least as high.  The empty input has no match and          *)
(* confidence 100.                                                         *)
(***************************************************************************)
C14_ConfidenceMonotoneNonEmpty ==
    [][/\ call'.op = "translate" => InBounds(result')
       /\ (call'.op = "translate" /\ call'.input = <<>>) =>
              (MatchedPairs(result') = 0 /\ result'.confidence = 100)
       /\ (ConsecutiveTranslates /\ call.input # <<>> /\ call'.input # <<>>) =>
              /\ MatchedPairs(result) <= MatchedPairs(result')
                     => result.confidence <= result'.confidence
              /\ MatchedPairs(result') <= MatchedPairs(result)
                     => result'.confidence <= result.confidence]_vars

\* A non-empty input with static and dynamic matches, fewer than six in
\* all: a confidence strictly between the base and the cap.
C14_Witness ==
    /\ Translated
    /\ call.input # <<>>
    /\ StaticReported # {}
    /\ DynamicReported # {}
    /\ MatchedPairs(result) < 6
    /\ 70 < result.confidence
    /\ result.confidence < 100

(***************************************************************************)
(* C15.  translate is a function of the input and of the static and        *)
(* dynamic patterns: the result of translate(s) is the one an engine       *)
(* fresh from the constructor returns after the same registrations,        *)
(* whatever was translated before; so two calls with the same s and no     *)
(* registration between them return the same terms in the same order and   *)
(* the same confidence.                                                    *)
(***************************************************************************)
\* The result of translate(input) on a new engine that has seen the
\* registrations of log and no translate call.
FreshResult(input, log) == translate(input, Constructor, AddEach(<<>>, log)).result

C15_Deterministic ==
    /\ Translated => result = FreshResult(call.input, registered)
    /\ \A i \in DOMAIN patterns : patterns[i].regex.lastIndex = 0
    /\ \A i \in DOMAIN dynamicPatterns : dynamicPatterns[i].value.regex.lastIndex = 0

\* "cap cap cap" translated with the dynamic Cap in the store: a static and
\* a dynamic pattern have matched before the end of the input.
C15_Witness ==
    /\ Translated
    /\ call.input = <<"c","a","p"," ","c","a","p"," ","c","a","p">>
    /\ \E i \in StaticReported : result.terms[i].term = <<"c","a","p">>
    /\ \E i \in DynamicReported : result.terms[i].term = <<"C","a","p">>
    /\ result = FreshResult(call.input, registered)

(***************************************************************************)
(* C16.  The static list holds every dictionary entry once, sorted by      *)
(* non-increasing term length with entries of equal length in dictionary   *)
(* order (category order, then authoring order); the entries of a result   *)
(* that come from static patterns appear in that order.                    *)
(***************************************************************************)
\* e stands before f in the dictionary: an earlier category, or the same
\* category and an earlier line.
DictionaryBefore(e, f) ==
    \E c, d \in DOMAIN LINGUISTICS :
        \E k \in DOMAIN LINGUISTICS[c].terms, l \in DOMAIN LINGUISTICS[d].terms :
            /\ LINGUISTICS[c].category = e.category
            /\ LINGUISTICS[c].terms[k].slang = e.term
            /\ LINGUISTICS[d].category = f.category
            /\ LINGUISTICS[d].terms[l].slang = f.term
            /\ c < d \/ (c = d /\ k < l)

\* e may stand before f in a list sorted as the claim says.
LengthOrdered(e, f) ==
    \/ Len(e.term) > Len(f.term)
    \/ Len(e.term) = Len(f.term) /\ DictionaryBefore(e, f)

C16_StaticOrder ==
    /\ Len(patterns) = Cardinality(StaticEntries)
    /\ {EntryOf(patterns[i]) : i \in DOMAIN patterns} = StaticEntries
    /\ \A i, j \in DOMAIN patterns :
           i < j => LengthOrdered(patterns[i], patterns[j])
    /\ Translated =>
           \A i, j \in StaticReported :
               i < j => LengthOrdered(result.terms[i], result.terms[j])

\* "no cap fr fr shook": three static entries of length five, in
\* dictionary order between the longer and the shorter ones.
C16_Witness ==
    /\ Translated
    /\ call.input = <<"n","o"," ","c","a","p"," ","f","r"," ","f","r"," ","s","h","o","o","k">>
    /\ Len(result.terms) >= 6
    /\ [i \in 1 .. 6 |-> <<result.terms[i].term, result.terms[i].category>>]
           = << <<<<"n","o"," ","c","a","p">>, GEN_Z>>, <<<<"f","r"," ","f","r">>, GEN_Z>>, <<<<"s","h","o","o","k">>, AAVE>>, <<<<"s","h","o","o","k">>, EMOTIONAL>>,
                <<<<"c","a","p">>, GEN_Z>>, <<<<"f","r">>, GEN_Z>> >>

(***************************************************************************)
(* C17.  In every translate result the entries produced by static          *)
(* patterns precede the entries produced by dynamic patterns, whatever     *)
(* their lengths, and the dynamic entries stand in the order in which      *)
(* their terms were first inserted into the store.                         *)
(***************************************************************************)
\* The place in the log of the first registration of term, letter case
\* aside.
FirstInserted(term) ==
    CHOOSE k \in DOMAIN registered :
        /\ toLowerCase(registered[k].term) = toLowerCase(term)
        /\ \A j \in 1 .. k - 1 : toLowerCase(registered[j].term) # toLowerCase(term)

C17_StaticBeforeDynamic ==
    Translated =>
        /\ \A i \in StaticReported : \A j \in DynamicReported : i < j
        /\ \A i, j \in DynamicReported :
               i < j => FirstInserted(result.terms[i].term)
                            < FirstInserted(result.terms[j].term)

\* rizz, Cap, then Rizz registered; "rizz no cap" translated.  The static
\* cap stands before the longer dynamic Rizz, and Rizz, registered last
\* but first inserted as rizz, stands before Cap.
C17_Witness ==
    /\ Translated
    /\ call.input = <<"r","i","z","z"," ","n","o"," ","c","a","p">>
    /\ [i \in DOMAIN registered |-> registered[i].term] = <<<<"r","i","z","z">>, <<"C","a","p">>, <<"R","i","z","z">>>>
    /\ [i \in DOMAIN result.terms |-> result.terms[i].term]
           = <<<<"n","o"," ","c","a","p">>, <<"c","a","p">>, <<"R","i","z","z">>, <<"C","a","p">>>>

(***************************************************************************)
(* C18.  However translate calls are interleaved with addDynamicTerm and   *)
(* loadDynamicTerms calls, every pattern of the store is whole (its regex, *)
(* term, meaning and category come from one registration), and the result  *)
(* of a translate call is the result against the store of one point in     *)
(* time, the store left by the registrations made before the call.         *)
(* translate, addDynamicTerm and loadDynamicTerms are synchronous: each    *)
(* runs to completion on the one JavaScript thread, so calls interleave    *)
(* as whole steps, which is what Next does.                                *)
(***************************************************************************)
\* The value at place i of the store is the pattern of one registration.
WholePattern(i) ==
    \E k \in DOMAIN registered :
        /\ dynamicPatterns[i].key = toLowerCase(registered[k].term)
        /\ dynamicPatterns[i].value
               = CompilePattern(registered[k].term, registered[k].meaning,
                                registered[k].category)

C18_NoTornPattern ==
    /\ \A i \in DOMAIN dynamicPatterns : WholePattern(i)
    /\ Translated =>
           /\ dynamicPatterns = AddEach(<<>>, registered)
           /\ result = translate(call.input, patterns, dynamicPatterns).result
           /\ \A e \in Reported :
                  e \in StaticEntries \/ \E k \in DOMAIN registered : registered[k] = e

\* Rizz registered, then rizz, and "RIZZ" translated: the one entry is that
\* of the second registration, none carries a field of the first.
C18_Witness ==
    /\ Translated
    /\ call.input = <<"R","I","Z","Z">>
    /\ [i \in DOMAIN registered |-> registered[i].term] = <<<<"R","i","z","z">>, <<"r","i","z","z">>>>
    /\ result.terms = <<[term |-> <<"r","i","z","z">>, meaning |-> "charisma", category |-> GEN_Z]>>
    /\ WholePattern(1)

(***************************************************************************)
(* C19.  A translate call compiles no pattern and changes neither the      *)
(* static list nor the store: the patterns, their regex source, term,      *)
(* meaning and category, the keys of the store and the order of both are   *)
(* after the call what they were before it.                                *)
(***************************************************************************)
\* What a compiled pattern is made of, the scan position of its regex
\* aside.
Compiled(p) ==
    [source |-> p.regex.source, term |-> p.term, meaning |-> p.meaning,
     category |-> p.category]

CompiledList(pats) == [i \in DOMAIN pats |-> Compiled(pats[i])]

CompiledStore(dyn) ==
    [i \in DOMAIN dyn |-> [key |-> dyn[i].key, value |-> Compiled(dyn[i].value)]]

C19_TranslateFrame ==
    [][call'.op = "translate" =>
          /\ CompiledList(patterns') = CompiledList(patterns)
          /\ CompiledStore(dynamicPatterns') = CompiledStore(dynamicPatterns)
          /\ registered' = registered]_vars

\* A translate call that has tested every pattern of the list and of a
\* store of two patterns, one of them kept under a key that is not its
\* term, and has found static and dynamic matches.
C19_Witness ==
    /\ Translated
    /\ Len(dynamicPatterns) = 2
    /\ \E i \in DOMAIN dynamicPatterns :
           dynamicPatterns[i].key # dynamicPatterns[i].value.term
    /\ tested = Len(patterns) + Len(dynamicPatterns)
    /\ StaticReported # {}
    /\ DynamicReported # {}
    /\ CompiledList(patterns) = CompiledList(Constructor)

(***************************************************************************)
(* C20.  getRandomTerm returns an entry {term, meaning, category} of the   *)
(* static dictionary, with the meaning the dictionary gives the term under *)
(* that category; it never returns a registered entry, whatever has been   *)
(* registered, and it changes no engine state.                             *)
(***************************************************************************)
C20_RandomTermStatic ==
    [][call'.op = "getRandomTerm" =>
          /\ result' \in StaticEntries
          /\ \A k \in DOMAIN registered : result' # registered[k]
          /\ patterns' = patterns
          /\ dynamicPatterns' = dynamicPatterns
          /\ registered' = registered]_vars

\* getRandomTerm has returned the dictionary's cap (lie) while the store
\* holds a registered cap with another meaning, and one more pattern.
C20_Witness ==
    /\ call.op = "getRandomTerm"
    /\ Len(dynamicPatterns) = 2
    /\ \E i \in DOMAIN dynamicPatterns :
           /\ dynamicPatterns[i].value.term = <<"c","a","p">>
           /\ dynamicPatterns[i].value.meaning = "hat"
    /\ result = [term |-> <<"c","a","p">>, meaning |-> "lie", category |-> GEN_Z]
    /\ result \in StaticEntries

(***************************************************************************)
(* C21.  For every non-empty term, static or registered, terms that begin  *)
(* or end with a non-word character included, the compiled matcher         *)
(* succeeds on a text exactly when the term occurs in it with a non-word   *)
(* character or the start or end of the text on each side.                 *)
(***************************************************************************)
C21_MatcherIffWholeUnit ==
    Translated =>
        \A p \in AllPatterns :
            p.term # <<>> =>
                (RegExpTest(p.regex, call.input).matched
                     <=> WholeUnit(p.term, call.input))

(***************************************************************************)
(* C22.  The store never evicts: its keys are the lowercased terms of      *)
(* every registration made so far, no step removes a key, and every        *)
(* translate tests the pattern of every key, so a stored pattern that      *)
(* matches the input has its (term, category) pair in the result.          *)
(***************************************************************************)
StoreKeys(dyn) == {dyn[i].key : i \in DOMAIN dyn}

RegisteredKeys == {toLowerCase(registered[k].term) : k \in DOMAIN registered}

C22_NoEviction ==
    [][/\ StoreKeys(dynamicPatterns) \subseteq StoreKeys(dynamicPatterns')
       /\ StoreKeys(dynamicPatterns') = RegisteredKeys'
       /\ Len(dynamicPatterns') = Cardinality(RegisteredKeys')
       /\ call'.op = "translate" =>
              \A i \in DOMAIN dynamicPatterns :
                  RegExpTest(dynamicPatterns[i].value.regex, call'.input).matched
                      => <<dynamicPatterns[i].value.term,
                           dynamicPatterns[i].value.category>>
                             \in Pairs(Range(result'.terms))]_vars

\* Cap registered, then rizz; "cap" translated: both keys are in the store
\* and the first registration is reported.
C22_Witness ==
    /\ Translated
    /\ call.input = <<"c","a","p">>
    /\ [k \in DOMAIN registered |-> registered[k].term] = <<<<"C","a","p">>, <<"r","i","z","z">>>>
    /\ StoreKeys(dynamicPatterns) = {<<"c","a","p">>, <<"r","i","z","z">>}
    /\ ReportedTerm(<<"C","a","p">>)

(***************************************************************************)
(* C23.  Registration does not change what the static dictionary           *)
(* contributes: the entries of a result that come from static patterns     *)
(* are, with their meanings and in their order, the terms an engine        *)
(* without any registration returns for the input; a registered term with  *)
(* the term and category of a static entry and another meaning leaves the  *)
(* static meaning reported, once.                                          *)
(***************************************************************************)
\* The entries of the last result that come from static patterns, in the
\* order of the result.
StaticSubList == SelectSeq(result.terms, LAMBDA e : e \in StaticEntries)

C23_StaticContribution ==
    Translated =>
        /\ StaticSubList = translate(call.input, Constructor, <<>>).result.terms
        /\ \A s \in StaticEntries :
               WholeUnit(s.term, call.input) =>
                   Cardinality({i \in DOMAIN result.terms :
                                   /\ result.terms[i].term = s.term
                                   /\ result.terms[i].category = s.category}) = 1

\* cap registered under GEN_Z with the meaning hat; "that's cap" reports
\* the dictionary's cap (lie) and nothing else.
C23_Witness ==
    /\ Translated
    /\ call.input = <<"t","h","a","t","'","s"," ","c","a","p">>
    /\ \E i \in DOMAIN dynamicPatterns :
           EntryOf(dynamicPatterns[i].value)
               = [term |-> <<"c","a","p">>, meaning |-> "hat", category |-> GEN_Z]
    /\ result.terms = <<[term |-> <<"c","a","p">>, meaning |-> "lie", category |-> GEN_Z]>>

(***************************************************************************)
(* C24.  With the category an open string, every pattern that matches has  *)
(* its (term, category) pair in the result: the dedup key                  *)
(* term + ":" + category drops no entry whose pair differs from the pairs  *)
(* already recorded, also when a term or a category holds a ':'.           *)
(***************************************************************************)
C24_OpenCategoryDedup ==
    Translated =>
        \A p \in AllPatterns :
            RegExpTest(p.regex, call.input).matched =>
                \E e \in Reported : e.term = p.term /\ e.category = p.category

(***************************************************************************)
(* C25.  Every character of a term that is special in the regular          *)
(* expression syntax is neutralised when the pattern is compiled, for      *)
(* static and registered terms alike: between its two boundary assertions  *)
(* the pattern is the term's characters as literals, so it matches only    *)
(* where the term itself stands in the text.  The registered "a.b"         *)
(* matches "a.b" and does not match "axb".                                 *)
(***************************************************************************)
\* The atoms of a pattern that matches the characters of term and nothing
\* else, between two word-boundary assertions.
LiteralAtoms(term) ==
    <<[kind |-> "boundary", char |-> ""]>>
        \o [i \in DOMAIN term |-> [kind |-> "char", char |-> term[i]]]
        \o <<[kind |-> "boundary", char |-> ""]>>

\* term begins and ends with a word character.
WordEdged(term) ==
    term # <<>> /\ IsWordChar(term[1]) /\ IsWordChar(term[Len(term)])

C25_LiteralMatch ==
    \A p \in AllPatterns :
        /\ p.regex.atoms = LiteralAtoms(p.term)
        /\ Translated =>
               /\ RegExpTest(p.regex, call.input).matched =>
                      \E pos \in 0 .. Len(call.input) : OccursAt(p.term, call.input, pos)
               /\ (WordEdged(p.term) /\ WholeUnit(p.term, call.input)) =>
                      RegExpTest(p.regex, call.input).matched

\* "a.b" and "a+b" are in the store and "axb" is translated: every pattern
\* has been tested and nothing is reported.
C25_Witness ==
    /\ Translated
    /\ call.input = <<"a","x","b">>
    /\ {dynamicPatterns[i].value.term : i \in DOMAIN dynamicPatterns} = {<<"a",".","b">>, <<"a","+","b">>}
    /\ tested = Len(patterns) + 2
    /\ result.terms = <<>>

(***************************************************************************)
(* C26.  No result holds two entries whose terms are equal letter case     *)
(* aside and whose categories are equal; a registered term that differs    *)
(* from a static entry of its category in letter case only does not make   *)
(* one occurrence in the input be reported twice.                          *)
(***************************************************************************)
C26_NoCaseDuplicates ==
    Translated =>
        \A i, j \in DOMAIN result.terms :
            (/\ toLowerCase(result.terms[i].term) = toLowerCase(result.terms[j].term)
             /\ result.terms[i].category = result.terms[j].category) => i = j

(***************************************************************************)
(* C27.  The scan position (lastIndex) of every compiled regex, static     *)
(* and dynamic, is 0 in every state between calls, so before and after     *)
(* every translate call, whether the pattern matched or not; whether a     *)
(* pattern matches an input is what a regex compiled anew from the same    *)
(* source gives.                                                           *)
(***************************************************************************)
ScanPositions == {p.regex.lastIndex : p \in AllPatterns}

C27_ScanPositionZero ==
    /\ ScanPositions = {0}
    /\ Translated =>
           \A p \in AllPatterns :
               (\E e \in Reported : e.term = p.term /\ e.category = p.category)
                   <=> RegExpTest(NewRegExp(p.regex.source), call.input).matched

\* "no cap fr fr shook" with c++ and the empty term in the store: patterns
\* that matched before the end of the input (the empty term at index 0),
\* patterns that did not match, and every scan position is 0.
C27_Witness ==
    /\ Translated
    /\ call.input = <<"n","o"," ","c","a","p"," ","f","r"," ","f","r"," ","s","h","o","o","k">>
    /\ {dynamicPatterns[i].value.term : i \in DOMAIN dynamicPatterns} = {<<"c","+","+">>, <<>>}
    /\ ReportedTerm(<<>>)
    /\ ~ReportedTerm(<<"c","+","+">>)
    /\ Cardinality(StaticReported) = 6
    /\ ScanPositions = {0}

(***************************************************************************)
(* C28.  Registering a term whose lowercased key is in the store replaces  *)
(* the pattern in place: the keys of the store stand in the order of       *)
(* their first registration, each with the pattern of its latest           *)
(* registration, and the dynamic entries of a result follow that order,    *)
(* whatever was overwritten since.                                         *)
(***************************************************************************)
\* The lowercased terms of a log, each once, in the order of their first
\* registration.
RECURSIVE KeysInFirstOrder(_)
KeysInFirstOrder(log) ==
    IF log = <<>> THEN <<>>
    ELSE LET n    == Len(log)
             prev == KeysInFirstOrder(SubSeq(log, 1, n - 1))
             key  == toLowerCase(log[n].term)
         IN  IF key \in Range(prev) THEN prev ELSE Append(prev, key)

\* The lowercased terms of the dynamic entries of the last result, in the
\* order of the result.
DynamicSubList ==
    LET dynamic == SelectSeq(result.terms, LAMBDA e : e \notin StaticEntries)
    IN  [i \in DOMAIN dynamic |-> toLowerCase(dynamic[i].term)]

C28_OverwriteInPlace ==
    /\ [i \in DOMAIN dynamicPatterns |-> dynamicPatterns[i].key]
           = KeysInFirstOrder(registered)
    /\ \A i \in DOMAIN dynamicPatterns : IsLatest(EntryOf(dynamicPatterns[i].value))
    /\ Translated =>
           DynamicSubList
               = SelectSeq(KeysInFirstOrder(registered),
                           LAMBDA k : \E i \in DOMAIN DynamicSubList :
                                          DynamicSubList[i] = k)

\* Rizz, Cap, then rizz registered; "rizz no cap" translated: the entry of
\* the third registration stands where the first stood, before Cap.
C28_Witness ==
    /\ Translated
    /\ call.input = <<"r","i","z","z"," ","n","o"," ","c","a","p">>
    /\ [i \in DOMAIN registered |-> registered[i].term] = <<<<"R","i","z","z">>, <<"C","a","p">>, <<"r","i","z","z">>>>
    /\ [i \in DOMAIN dynamicPatterns |-> dynamicPatterns[i].value.term] = <<<<"r","i","z","z">>, <<"C","a","p">>>>
    /\ [i \in DOMAIN result.terms |-> result.terms[i].term]
           = <<<<"n","o"," ","c","a","p">>, <<"c","a","p">>, <<"r","i","z","z">>, <<"C","a","p">>>>

(***************************************************************************)
(* The discovery service.                                                  *)
(***************************************************************************)
\* The calls of findSlangTerm that returned a value, by themselves or as
\* the first statement of discoverAndCacheSlang.
Returned(s) == tasks[s].pc = "done" /\ tasks[s].ret # <<>>

\* C29: findSlangTerm returns source 'static' only for a term matched by an
\* entry of the static dictionary; a term known only through the dynamic
\* store or the database is reported with source 'database', also after it
\* has been added to the engine's runtime cache.
C29_StaticSourceIsStatic ==
    \A s \in Slots :
        Returned(s) /\ tasks[s].ret[1].source = "static" =>
            [term |-> tasks[s].ret[1].term, meaning |-> tasks[s].ret[1].meaning,
             category |-> tasks[s].ret[1].category] \in StaticEntries

\* Every value of the dynamic store is a row of dynamic_slang.
StorePersisted(dyn, rows) ==
    \A i \in DOMAIN dyn :
        \E r \in rows : /\ r.term = dyn[i].value.term
                        /\ r.meaning = dyn[i].value.meaning
                        /\ r.category = dyn[i].value.category

\* C30: in every interleaving of the three functions, every term of the
\* engine's dynamic store is a row of the dynamic_slang table, and a failed
\* insert or a failed initial load is caught: the call ends without an
\* exception and the step leaves the dynamic store as it was.
C30_CachePersisted ==
    [][/\ StorePersisted(dynamicPatterns, table)'
       /\ \A s \in Slots :
              tasks[s].pc \in {"insert_failed", "all_failed"} /\ tasks'[s] # tasks[s] =>
                  /\ dynamicPatterns' = dynamicPatterns
                  /\ tasks'[s].pc = "done"
                  /\ ~tasks'[s].thrown]_vars

\* Two discoveries of the same unknown term ran at once and both returned
\* the definition: one insert went through, the other was rejected, and
\* the term was registered once.
C30_Witness ==
    /\ \A s \in Slots :
           /\ tasks[s].op = "discover"
           /\ Returned(s)
           /\ tasks[s].ret[1].source = "urbandictionary"
           /\ tasks[s].ret[1].term = <<"r","i","z","z">>
           /\ ~tasks[s].thrown
    /\ started = 2
    /\ Len(registered) = 1
    /\ Len(dynamicPatterns) = 1
    /\ table = {Row(<<"r","i","z","z">>, "charisma", GEN_Z, 1)}

====
